---- MODULE Spec2Model ----
(***************************************************************************)
(* The request-handling layer of Ai_Humanizer: the in-memory rate limiter, *)
(* the credential resolution, the rewrite flow with its quota fallback and *)
(* the verify flow, as deployed in four units: the Express server          *)
(* (startServer), the standalone rewrite handler, the standalone verify    *)
(* handler, and the standalone verify handler that has no limiter.         *)
(*                                                                         *)
(* One behaviour follows one deployment unit (one process, one module      *)
(* instance, hence one rateLimit map).  JavaScript runs a handler to its   *)
(* next await without interleaving, so each action is one such segment:    *)
(* the arrival of a request up to its first await or its response, and the *)
(* settling of one awaited upstream call up to the next await or response. *)
(***************************************************************************)
EXTENDS Integers, Sequences, FiniteSets, TLC

----------------------------------------------------------------------------
(* Bounds of the model *)

\* clock advances per behaviour
MaxTicks == 1
\* requests awaiting an upstream call at the same time
MaxInFlight == 1
\* requests per behaviour from clients other than HeavyClient (from every
\* client, in the workload of many clients)
MaxOther == 2
\* requests a client sends beyond MAX_REQUESTS within one window, in a burst
MaxOver == 2
\* requests a client sends within one window, outside a burst
MaxRequests == 2

----------------------------------------------------------------------------
(* Program constants *)

WINDOW_MS == 60000
MAX_REQUESTS == 20

----------------------------------------------------------------------------
(* State *)

VARIABLES
    unit,            \* the deployment unit this process runs
    GEMINI_API_KEY,  \* process.env.GEMINI_API_KEY
    clientKey,       \* the apiKey the clients of this behaviour send
    load,            \* the workload: "flows" (one client, few requests one by
                     \* one, every key and outcome), "burst" (one client,
                     \* concurrent requests that exhaust the limit) or
                     \* "clients" (every client address, few requests);
                     \* "sliding" (one client, two windows), "browser"
                     \* (the browser client alone) and "pair" (the Express
                     \* server and the standalone handlers side by side)
    now,             \* Date.now()
    ticks,           \* clock advances so far
    rateLimit,       \* the unit's rateLimit Map
    slots,           \* the requests awaiting an upstream call
    last,            \* the request whose handling ended most recently
    seen,            \* observer: per Map key, the arrivals of its current window
    others,          \* observer: the arrivals that MaxOther bounds
    browser,         \* the state of the browser client (App), None without one
    standalone       \* the standalone handlers run beside the Express server,
                     \* None without them

vars ==
    <<unit, GEMINI_API_KEY, clientKey, load, now, ticks, rateLimit, slots, last,
      seen, others, browser, standalone>>

----------------------------------------------------------------------------
(* JavaScript values *)

\* undefined, and a defined value x
None == <<>>
Some(x) == <<x>>

\* truthiness of an optional string held as a sequence of characters (a
\* key): undefined and the empty string are falsy
Truthy(o) == o # None /\ o[1] # <<>>

\* a || b on optional keys
Or(a, b) == IF Truthy(a) THEN a ELSE b

\* truthiness and || of an optional address (a TLA+ string)
TruthyAddr(o) == o # None /\ o[1] # ""
OrAddr(a, b) == IF TruthyAddr(a) THEN a ELSE b

\* String.prototype.includes, on a string held as a sequence of tokens
Includes(s, tok) == \E i \in 1..Len(s) : s[i] = tok

\* String.prototype.trim, on a string held as a sequence of characters
RECURSIVE TrimLeft(_)
TrimLeft(s) == IF s # <<>> /\ Head(s) = " " THEN TrimLeft(Tail(s)) ELSE s
RECURSIVE TrimRight(_)
TrimRight(s) ==
    IF s # <<>> /\ s[Len(s)] = " " THEN TrimRight(SubSeq(s, 1, Len(s) - 1)) ELSE s
Trim(s) == TrimRight(TrimLeft(s))

----------------------------------------------------------------------------
(* Inputs *)

Units == {"express", "rewriteHandler", "verifyHandler", "verifyVariant"}

\* process.env.GEMINI_API_KEY: unset, set to the empty string, set to a key
EnvKeys == {None, Some(<<>>), Some(<<"s">>)}

\* req.body.apiKey: absent, empty, blank, plain, padded with whitespace
ApiKeys == {None, Some(<<>>), Some(<<" ">>), Some(<<"k">>), Some(<<" ", "k", " ">>)}

\* req.headers['x-forwarded-for']: absent, a string (of one address, empty,
\* or of two addresses separated by a comma), or an array of strings
Header(isArray, vals) == [isArray |-> isArray, vals |-> vals]
Forwardeds ==
    {None, Some(Header(FALSE, <<"c1">>)), Some(Header(FALSE, <<"">>)),
     Some(Header(FALSE, <<"c1", "c2">>)), Some(Header(TRUE, <<"c1", "c2">>))}

\* req.socket.remoteAddress
Remotes == {None, Some("p1")}

Methods == {"POST", "GET"}
Routes == {"verify", "rewrite"}
Texts == {Some("in1")}

Request(route, method, forwarded, remote, apiKey, text) ==
    [route |-> route, method |-> method, forwarded |-> forwarded,
     remote |-> remote, apiKey |-> apiKey, text |-> text]

\* keys of the rateLimit Map: a string, or an object (an array header used
\* as the key is a new object for every request)
StrKey(s) == <<"str", s>>
ObjKey(n) == <<"obj", n>>
HeavyClient == StrKey("c1")

----------------------------------------------------------------------------
(* Upstream: ai.models.generateContent *)

SYSTEM_INSTRUCTION == "SYSTEM_INSTRUCTION"

\* the argument of one generateContent call, with the key of its client;
\* sampling is <<temperature * 10, topP * 100, topK>>
Call(model, key, text, sys, sampling) ==
    [model |-> model, apiKey |-> key, text |-> text,
     systemInstruction |-> sys, sampling |-> sampling]

PrimaryCall(key, text) ==
    Call("gemini-3.1-pro-preview", key, text, Some(SYSTEM_INSTRUCTION), Some(<<11, 98, 100>>))

\* mutant: the fallback call carries no system instruction
SecondaryCallBare(key, text) ==
    Call("gemini-3-flash-preview", key, text, None, Some(<<10, 95, 64>>))

SecondaryCall(key, text) ==
    Call("gemini-3-flash-preview", key, text, Some(SYSTEM_INSTRUCTION), Some(<<10, 95, 64>>))

ProbeCall(key) ==
    Call("gemini-3-flash-preview", key, Some("Hi"), None, None)

\* A rejected call: the thrown value.  status 0 and code 0 stand for an absent
\* field; message is an optional sequence of tokens; details are the tokens
\* of any other enumerable property; enumerableMessage says whether message
\* is an enumerable property (a plain object) or not (an Error instance).
Err(status, message, code, estatus, details, enumerableMessage) ==
    [status |-> status, message |-> message, code |-> code, estatus |-> estatus,
     details |-> details, enumerableMessage |-> enumerableMessage]

ErrQuotaStatus == Err(429, Some(<<"quota", "exceeded">>), 0, "", <<>>, FALSE)
ErrQuotaCode == Err(403, Some(<<"denied">>), 429, "", <<>>, FALSE)
ErrQuotaDetails == Err(0, None, 0, "", <<"RESOURCE_EXHAUSTED">>, FALSE)
ErrAuth == Err(403, Some(<<"API", "Key", "denied">>), 0, "", <<>>, FALSE)
ErrBare == Err(0, None, 0, "", <<>>, FALSE)

\* quota markers in the message and in error.status, beside an
\* authorization-style status
ErrQuotaMessage429 == Err(403, Some(<<"error", "429", "denied">>), 0, "", <<>>, FALSE)
ErrQuotaMessageText == Err(403, Some(<<"RESOURCE_EXHAUSTED">>), 0, "", <<>>, FALSE)
ErrQuotaEStatus == Err(403, Some(<<"denied">>), 0, "RESOURCE_EXHAUSTED", <<>>, FALSE)

Errors ==
    {ErrQuotaStatus, ErrQuotaCode, ErrQuotaDetails, ErrQuotaMessage429,
     ErrQuotaMessageText, ErrQuotaEStatus, ErrAuth, ErrBare}

\* what generateContent resolves with (result.text may be undefined) or
\* rejects with
Success(text) == [ok |-> TRUE, text |-> text, err |-> Err(0, None, 0, "", <<>>, FALSE)]
Failure(e) == [ok |-> FALSE, text |-> None, err |-> e]
Outcomes ==
    {Success(Some("T1")), Success(Some("T2")), Success(None)} \cup {Failure(e) : e \in Errors}
\* the outcomes drawn where the workload is not about them
BurstOutcomes == {Success(Some("T1")), Failure(ErrQuotaStatus), Failure(ErrAuth)}

\* a number as it is printed
NumTok(n) ==
    CASE n = 429 -> "429" [] n = 403 -> "403" [] n = 400 -> "400"
      [] n = 500 -> "500" [] OTHER -> "0"

\* JSON.stringify(proError), as the tokens of its enumerable properties
Stringify(e) ==
    (IF e.status # 0 THEN <<"status", NumTok(e.status)>> ELSE <<>>)
    \o (IF e.enumerableMessage /\ e.message # None THEN <<"message">> \o e.message[1] ELSE <<>>)
    \o (IF e.code # 0 THEN <<"code", NumTok(e.code)>> ELSE <<>>)
    \o (IF e.estatus # "" THEN <<"status", e.estatus>> ELSE <<>>)
    \o e.details

\* mutant: a status the error carries decides alone
isQuotaErrorByStatusFirst(proError) ==
    IF proError.status # 0 THEN proError.status = 429
    ELSE \/ (proError.message # None /\ Includes(proError.message[1], "429"))
         \/ (proError.message # None /\ Includes(proError.message[1], "RESOURCE_EXHAUSTED"))
         \/ proError.code = 429
         \/ proError.estatus = "RESOURCE_EXHAUSTED"
         \/ Includes(Stringify(proError), "RESOURCE_EXHAUSTED")

\* src/api/rewrite.ts:88-93
isQuotaError(proError) ==
    \/ proError.status = 429
    \/ (proError.message # None /\ Includes(proError.message[1], "429"))
    \/ (proError.message # None /\ Includes(proError.message[1], "RESOURCE_EXHAUSTED"))
    \/ proError.code = 429
    \/ proError.estatus = "RESOURCE_EXHAUSTED"
    \/ Includes(Stringify(proError), "RESOURCE_EXHAUSTED")

----------------------------------------------------------------------------
(* The rate limiter: src/unnamed/part_000:67-90, src/api/rewrite.ts:37-53   *)
(* and 125-142                                                              *)

\* rateLimit.get(ip): the record, or undefined
Get(map, ip) == IF ip \in DOMAIN map THEN Some(map[ip]) ELSE None

\* rateLimit.set(ip, record)
Set(map, ip, record) ==
    [k \in DOMAIN map \cup {ip} |-> IF k = ip THEN record ELSE map[k]]

\* mutant: the window ends once WINDOW_MS have passed
ExpiredAtWindow(t, record) == t - record.lastReset >= WINDOW_MS

\* now - record.lastReset > WINDOW_MS
Expired(t, record) == t - record.lastReset > WINDOW_MS

\* mutant: the limit is checked with > instead of >=
OverLimitStrict(record) == record.count > MAX_REQUESTS

\* record.count >= MAX_REQUESTS
OverLimit(record) == record.count >= MAX_REQUESTS

\* mutant: a request that arrives while another awaits its upstream call
\* stores the count it read, as if the other's update were lost
IncrementStale(record) ==
    IF \E i \in DOMAIN slots : slots[i] # <<>> THEN record
    ELSE [record EXCEPT !.count = @ + 1]

\* record.count++
Increment(record) == [record EXCEPT !.count = @ + 1]

\* mutant: the stored record keeps the key of the client's requests
LimiterWithKey(map, ip, t) ==
    LET got == Get(map, ip)
        record == IF got = None \/ Expired(t, got[1])
                  THEN [count |-> 0, lastReset |-> t]
                  ELSE [count |-> got[1].count, lastReset |-> got[1].lastReset]
    IN  IF OverLimit(record)
        THEN [admitted |-> FALSE, map |-> map]
        ELSE [admitted |-> TRUE,
              map |-> Set(map, ip, [count |-> record.count + 1,
                                    lastReset |-> record.lastReset,
                                    apiKey |-> clientKey])]

\* mutant: a rejected request is counted too
LimiterCountsRejected(map, ip, t) ==
    LET got == Get(map, ip)
        record == IF got = None \/ Expired(t, got[1])
                  THEN [count |-> 0, lastReset |-> t]
                  ELSE got[1]
    IN  [admitted |-> ~OverLimit(record), map |-> Set(map, ip, Increment(record))]

\* mutant: a rejected request restarts the client's window
LimiterExtending(map, ip, t) ==
    LET got == Get(map, ip)
        record == IF got = None \/ Expired(t, got[1])
                  THEN [count |-> 0, lastReset |-> t]
                  ELSE got[1]
    IN  IF OverLimit(record)
        THEN [admitted |-> FALSE,
              map |-> Set(map, ip, [record EXCEPT !.lastReset = t])]
        ELSE [admitted |-> TRUE, map |-> Set(map, ip, Increment(record))]

\* the limiter's code on the map, for key ip at time t: whether the request
\* is admitted, and the map afterwards
Limiter(map, ip, t) ==
    LET got == Get(map, ip)
        record == IF got = None \/ Expired(t, got[1])
                  THEN [count |-> 0, lastReset |-> t]
                  ELSE got[1]
    IN  IF OverLimit(record)
        THEN [admitted |-> FALSE, map |-> map]
        ELSE [admitted |-> TRUE, map |-> Set(map, ip, Increment(record))]

\* a string header as the code reads it: the whole string, which holds the
\* addresses of its values separated by ", "
Whole(vals) == IF vals = <<"c1", "c2">> THEN "c1, c2" ELSE vals[1]

\* forwarded[0] of an array header, the header itself otherwise
FirstForwarded(h) ==
    IF h = None THEN None
    ELSE IF h[1].isArray
         THEN (IF h[1].vals = <<>> THEN None ELSE Some(h[1].vals[1]))
         ELSE Some(Whole(h[1].vals))

\* part_000:74-75
ExpressIp(req) ==
    StrKey(OrAddr(OrAddr(FirstForwarded(req.forwarded), req.remote), Some("unknown"))[1])

\* rewrite.ts:131-132
VerifyIp(req) ==
    StrKey(OrAddr(FirstForwarded(req.forwarded), Some("unknown"))[1])

\* rewrite.ts:43: the header itself is the key; an array is an object, and
\* the Map compares objects by identity (fresh is the identity of this
\* request's array)
RewriteIp(req, fresh) ==
    IF req.forwarded # None /\ req.forwarded[1].isArray
    THEN ObjKey(fresh)
    ELSE StrKey(OrAddr(FirstForwarded(req.forwarded), Some("unknown"))[1])

----------------------------------------------------------------------------
(* One request as its handler sees it *)

\* a JSON body: the fields text, error and status, each present or absent
\* (JSON.stringify drops a field whose value is undefined)
Body(text, error, status) == [text |-> text, error |-> error, status |-> status]

TooManyRequests == <<"Too many requests. Please try again later.">>
MethodNotAllowed == <<"Method Not Allowed">>
KeyMissing == <<"API Key is missing. Please configure it in Vercel or provide one.">>
KeyRequired == <<"API Key is required">>
InternalServerError == <<"Internal Server Error">>

\* The handler's progress on one request: the parts of the request it reads
\* (and the peer address, which only the Express middleware reads),
\* the Map key it was counted under (absent where there is no limiter), the
\* steps it has taken, the upstream calls it has made, how they settled, the
\* responses it has sent, where it stands, keyToUse, and whether the call it
\* awaits will never settle.
NewCtx(req, ip) ==
    [route |-> req.route, method |-> req.method, forwarded |-> req.forwarded,
     remote |-> req.remote, apiKey |-> req.apiKey,
     text |-> req.text, ip |-> ip, steps |-> <<>>, calls |-> <<>>,
     settled |-> <<>>, sent |-> <<>>, stage |-> "start", keyToUse |-> None,
     hung |-> FALSE]

Step(c, name) == [c EXCEPT !.steps = Append(@, name)]

\* res.status(status).json(body)
Send(c, status, body) ==
    [c EXCEPT !.sent = Append(@, [status |-> status, body |-> body]), !.stage = "done"]

\* await ai.models.generateContent(call)
Await(c, call, stage) ==
    [c EXCEPT !.calls = Append(@, call), !.stage = stage]

\* the awaited call resolves or rejects with outcome
Resume(c, outcome) == [c EXCEPT !.settled = Append(@, outcome)]

\* mutant: the method is checked before the limiter answers
RejectAfterMethodCheck(c) ==
    Send(Step(Step(c, "method"), "limited"), 429, Body(None, Some(TooManyRequests), None))

\* rewrite.ts:50, part_000:84
Reject(c) == Send(Step(c, "limited"), 429, Body(None, Some(TooManyRequests), None))

\* rewrite.ts:55-57, 144-146; part_000:4-6
MethodCheck(c) == Step(c, "method")
NotAllowed(c) == Send(c, 405, Body(None, Some(MethodNotAllowed), None))

\* mutant: the server default takes precedence
keyToUseDefaultFirst(apiKey, env) == IF env # <<>> /\ env[1] # <<>> THEN env ELSE apiKey

\* rewrite.ts:63, part_000:122: apiKey || process.env.GEMINI_API_KEY
keyToUse(apiKey, env) == Or(apiKey, env)

\* mutant: every failure is reported as 500 "Internal Server Error"
OuterCatchGeneric(c, error) ==
    [c EXCEPT !.sent = Append(@, [status |-> 500,
                                  body |-> [text |-> <<>>,
                                            error |-> <<InternalServerError>>,
                                            status |-> <<>>]]),
              !.stage = "done"]

\* rewrite.ts:116-118, part_000:175-177: the outer catch
OuterCatch(c, error) ==
    LET status == IF error.status # 0 THEN error.status ELSE 500
        message == IF error.message # None /\ error.message[1] # <<>>
                   THEN error.message[1] ELSE InternalServerError
    IN  Send(c, status, Body(None, Some(message), None))

\* mutant: the missing key is not detected
RewriteStartUnchecked(c, env) ==
    LET key == Or(c.apiKey, env)
    IN  Await([Step(c, "credential") EXCEPT !.keyToUse = key],
              PrimaryCall(IF key = <<>> THEN <<>> ELSE key[1], c.text), "primary")

\* rewrite.ts:59-81, part_000:118-140: up to the first await
RewriteStart(c, env) ==
    LET key == keyToUse(c.apiKey, env)
        c1 == Step(c, "credential")
    IN  IF ~Truthy(key)
        THEN Send(c1, 401, Body(None, Some(KeyMissing), None))
        ELSE Await([c1 EXCEPT !.keyToUse = key], PrimaryCall(key[1], c.text), "primary")

\* mutant: every failure of the primary call falls back
PrimarySettledAnyError(c, outcome) ==
    IF outcome.ok
    THEN Send(Resume(c, outcome), 200, Body(outcome.text, None, None))
    ELSE Await(Resume(c, outcome), SecondaryCall(c.keyToUse[1], c.text), "secondary")

\* mutant: a primary success is followed by a call to the secondary model
PrimarySettledThenSecondary(c, outcome) ==
    IF outcome.ok \/ isQuotaError(outcome.err)
    THEN Await(Resume(c, outcome), SecondaryCall(c.keyToUse[1], c.text), "secondary")
    ELSE OuterCatch(Resume(c, outcome), outcome.err)

\* rewrite.ts:83-113, part_000:142-172: the primary call has settled
PrimarySettled(c, outcome) ==
    IF outcome.ok
    THEN Send(Resume(c, outcome), 200, Body(outcome.text, None, None))
    ELSE IF isQuotaError(outcome.err)
         THEN Await(Resume(c, outcome), SecondaryCall(c.keyToUse[1], c.text), "secondary")
         ELSE OuterCatch(Resume(c, outcome), outcome.err)

\* mutant: a failed fallback is reported as the primary's failure
SecondarySettledAsPrimary(c, outcome) ==
    IF outcome.ok
    THEN Send(Resume(c, outcome), 200, Body(outcome.text, None, None))
    ELSE OuterCatch(Resume(c, outcome), c.settled[1].err)

\* rewrite.ts:109 and 114-119, part_000:168 and 173-178: the fallback call
\* has settled
SecondarySettled(c, outcome) ==
    IF outcome.ok
    THEN Send(Resume(c, outcome), 200, Body(outcome.text, None, None))
    ELSE OuterCatch(Resume(c, outcome), outcome.err)

\* mutant: verify falls back to the server default
VerifyStartWithDefault(c) ==
    LET key == Or(c.apiKey, GEMINI_API_KEY)
        c1 == Step(c, "credential")
    IN  IF ~Truthy(key)
        THEN Send(c1, 400, Body(None, Some(KeyRequired), None))
        ELSE Await([c1 EXCEPT !.keyToUse = key], ProbeCall(key[1]), "probe")

\* rewrite.ts:148-158, part_000:8-18 and 97-107: up to the await
VerifyStart(c) ==
    LET c1 == Step(c, "credential")
    IN  IF ~Truthy(c.apiKey)
        THEN Send(c1, 400, Body(None, Some(KeyRequired), None))
        ELSE Await([c1 EXCEPT !.keyToUse = c.apiKey], ProbeCall(c.apiKey[1]), "probe")

\* mutant: a probe that fails with a quota error is repeated
ProbeSettledRetry(c, outcome) ==
    IF outcome.ok
    THEN Send(Resume(c, outcome), 200, Body(None, None, Some("valid")))
    ELSE IF isQuotaError(outcome.err) /\ Len(c.calls) < 2
         THEN Await(Resume(c, outcome), ProbeCall(c.keyToUse[1]), "probe")
         ELSE Send(Resume(c, outcome), 400, Body(None, outcome.err.message, Some("invalid")))

\* mutant: a key is reported valid only to the first request of a window
ProbeSettledFirstOnly(c, outcome) ==
    IF outcome.ok /\ \A k \in DOMAIN seen : seen[k].arrived <= 1
    THEN Send(Resume(c, outcome), 200, Body(None, None, Some("valid")))
    ELSE Send(Resume(c, outcome), 400,
              Body(None, IF outcome.ok THEN None ELSE outcome.err.message, Some("invalid")))

\* rewrite.ts:160-164, part_000:20-24 and 109-113: the probe has settled
ProbeSettled(c, outcome) ==
    IF outcome.ok
    THEN Send(Resume(c, outcome), 200, Body(None, None, Some("valid")))
    ELSE Send(Resume(c, outcome), 400, Body(None, outcome.err.message, Some("invalid")))

\* mutant: the middleware keeps one record per client and route
ExpressHandlerPerRoute(req, map, t, env) ==
    LET ip == ExpressIp(req)
        lim == Limiter(map, <<"str", ip[2], req.route>>, t)
        c == Step(Step(NewCtx(req, Some(ip)), "json"), "limiter")
    IN  [map |-> lim.map,
         ctx |-> IF ~lim.admitted THEN Reject(c)
                 ELSE IF req.method # "POST" THEN [c EXCEPT !.stage = "next"]
                 ELSE IF req.route = "verify" THEN VerifyStart(c)
                 ELSE RewriteStart(c, env)]

\* part_000:72-179: express.json(), the limiter middleware, then the route
\* that matches; a request no route matches goes on to the middleware of
\* lines 181-192
ExpressHandler(req, map, t, env) ==
    LET ip == ExpressIp(req)
        lim == Limiter(map, ip, t)
        c == Step(Step(NewCtx(req, Some(ip)), "json"), "limiter")
    IN  [map |-> lim.map,
         ctx |-> IF ~lim.admitted THEN Reject(c)
                 ELSE IF req.method # "POST" THEN [c EXCEPT !.stage = "next"]
                 ELSE IF req.route = "verify" THEN VerifyStart(c)
                 ELSE RewriteStart(c, env)]

\* mutant: the handler does not look at the method
RewriteHandlerAnyMethod(req, map, t, env, fresh) ==
    LET ip == RewriteIp(req, fresh)
        lim == Limiter(map, ip, t)
        c == Step(NewCtx(req, Some(ip)), "limiter")
    IN  [map |-> lim.map,
         ctx |-> IF ~lim.admitted THEN Reject(c) ELSE RewriteStart(MethodCheck(c), env)]

\* rewrite.ts:41-120
RewriteHandler(req, map, t, env, fresh) ==
    LET ip == RewriteIp(req, fresh)
        lim == Limiter(map, ip, t)
        c == Step(NewCtx(req, Some(ip)), "limiter")
    IN  [map |-> lim.map,
         ctx |-> IF ~lim.admitted THEN Reject(c)
                 ELSE IF req.method # "POST" THEN NotAllowed(MethodCheck(c))
                 ELSE RewriteStart(MethodCheck(c), env)]

\* mutant: the method is checked before the limiter, so that a request
\* answered 405 is not counted
VerifyHandlerMethodFirst(req, map, t) ==
    LET ip == VerifyIp(req)
        lim == Limiter(map, ip, t)
        c == Step(NewCtx(req, Some(ip)), "limiter")
    IN  IF req.method # "POST"
        THEN [map |-> map, ctx |-> NotAllowed(MethodCheck(c))]
        ELSE [map |-> lim.map,
              ctx |-> IF ~lim.admitted THEN Reject(c) ELSE VerifyStart(MethodCheck(c))]

\* rewrite.ts:129-165
VerifyHandler(req, map, t) ==
    LET ip == VerifyIp(req)
        lim == Limiter(map, ip, t)
        c == Step(NewCtx(req, Some(ip)), "limiter")
    IN  [map |-> lim.map,
         ctx |-> IF ~lim.admitted THEN Reject(c)
                 ELSE IF req.method # "POST" THEN NotAllowed(MethodCheck(c))
                 ELSE VerifyStart(MethodCheck(c))]

\* part_000:3-25: the verify handler that has no limiter
VerifyVariantHandler(req, map) ==
    LET c == NewCtx(req, None)
    IN  [map |-> map,
         ctx |-> IF req.method # "POST" THEN NotAllowed(MethodCheck(c))
                 ELSE VerifyStart(MethodCheck(c))]

----------------------------------------------------------------------------
(* The browser client: src/unnamed/part_001 *)

\* the apiKey state of App: '' until a key is stored, then the stored key
\* (saveApiKey stores the trimmed key)
StoredKeys == {<<>>, <<"k">>}

\* keyToTest.startsWith('AIza'); the key k stands for a key of that form
StartsWithAIza(keyToTest) == keyToTest # <<>> /\ keyToTest[1] = "k"

\* testApiKey: the body of its POST to /api/verify
testApiKeyBody(keyToTest) == [apiKey |-> Some(keyToTest)]

\* handleRewrite: the body of its POST to /api/rewrite
handleRewriteBody(inputText, apiKey) == [text |-> Some(inputText), apiKey |-> Some(apiKey)]

\* the request is one the browser client issues
FromBrowser(c) ==
    /\ c.method = "POST"
    /\ \E key \in StoredKeys :
          \/ /\ c.route = "rewrite" /\ c.text # None
             /\ [text |-> c.text, apiKey |-> c.apiKey] = handleRewriteBody(c.text[1], key)
          \/ /\ c.route = "verify" /\ StartsWithAIza(key)
             /\ [apiKey |-> c.apiKey] = testApiKeyBody(key)

----------------------------------------------------------------------------
(* Arrivals and settlements *)

Slots == 1..MaxInFlight
FreeSlots == {i \in Slots : slots[i] = None}
FirstFree == CHOOSE i \in FreeSlots : \A j \in FreeSlots : i <= j

\* the requests that may arrive
Requests ==
    {Request(route, method, forwarded, remote, clientKey, text) :
        route \in Routes, method \in Methods,
        forwarded \in (IF load = "clients" THEN Forwardeds
                       ELSE {Some(Header(FALSE, <<"c1">>))}),
        remote \in (IF load = "clients" THEN Remotes ELSE {Some("p1")}),
        text \in Texts}

\* the observer's log of a key under the sliding workload: how many requests
\* were let pass at each of the times less than WINDOW_MS before t, t included
Stamp(times, t) ==
    [u \in {v \in DOMAIN times : t - v < WINDOW_MS} \cup {t} |->
        (IF u \in DOMAIN times THEN times[u] ELSE 0) + (IF u = t THEN 1 ELSE 0)]

\* the observer's window of a key: it opens with the first arrival and is
\* replaced by the first arrival more than WINDOW_MS after it opened; it
\* counts the arrivals and those the limiter let pass, and remembers whether
\* the window it replaced was exhausted
Observe(s, ip, t, admitted) ==
    LET got == Get(s, ip)
        w == IF got = None \/ t - got[1].start > WINDOW_MS
             THEN [start |-> t, arrived |-> 0, admitted |-> 0,
                   exhausted |-> got # None /\ got[1].admitted >= MAX_REQUESTS,
                   times |-> IF got = None THEN <<>> ELSE got[1].times]
             ELSE got[1]
    IN  Set(s, ip, [w EXCEPT !.arrived = @ + 1,
                             !.admitted = @ + (IF admitted THEN 1 ELSE 0),
                             !.times = IF load = "sliding" /\ admitted
                                       THEN Stamp(@, t) ELSE @])

\* the workload the model explores
Budget(ip) ==
    LET got == Get(seen, ip)
    IN  /\ (ip = HeavyClient /\ load # "clients") \/ others < MaxOther
        /\ IF got = None THEN TRUE
           ELSE IF now - got[1].start > WINDOW_MS THEN TRUE
           ELSE got[1].arrived <
                    (IF load = "burst" THEN MAX_REQUESTS + MaxOver
                     ELSE IF load = "sliding" THEN MAX_REQUESTS
                     ELSE MaxRequests)

\* the identity of the next array object used as a Map key
Fresh == Cardinality({k \in DOMAIN rateLimit : k[1] = "obj"}) + 1

\* the state after construction
Start ==
    /\ unit \in Units
    /\ now = 0
    /\ ticks = 0
    /\ rateLimit = <<>>
    /\ slots = [i \in Slots |-> None]
    /\ last = None
    /\ seen = <<>>
    /\ others = 0
    /\ browser = None
    /\ standalone = None

Init ==
    /\ load = "flows"
    /\ GEMINI_API_KEY \in EnvKeys
    /\ clientKey \in ApiKeys
    /\ Start

InitBurst ==
    /\ load = "burst"
    /\ GEMINI_API_KEY \in {None, Some(<<"s">>)}
    /\ clientKey \in {None, Some(<<"k">>)}
    /\ Start

InitClients ==
    /\ load = "clients"
    /\ GEMINI_API_KEY = None
    /\ clientKey \in {None, Some(<<"k">>)}
    /\ Start

InitSliding ==
    /\ load = "sliding"
    /\ GEMINI_API_KEY = None
    /\ clientKey = Some(<<"k">>)
    /\ Start

Limited(c) == c.steps # <<>> /\ c.steps[Len(c.steps)] = "limited"

\* the outcome of an arrival: the Map is updated, and the request either
\* has been answered or awaits its first upstream call
Arrived(ip, r) ==
    /\ Budget(ip)
    /\ r.ctx.stage \in {"done", "next"} \/ FreeSlots # {}
    /\ load = "burst" \/ FreeSlots = Slots
    /\ rateLimit' = r.map
    /\ seen' = Observe(seen, ip, now, ~Limited(r.ctx))
    /\ others' = IF ip = HeavyClient /\ load # "clients" THEN others ELSE others + 1
    /\ IF r.ctx.stage \in {"done", "next"}
       THEN last' = Some(r.ctx) /\ slots' = slots
       ELSE last' = last /\ slots' = [slots EXCEPT ![FirstFree] = Some(r.ctx)]
    /\ UNCHANGED <<unit, GEMINI_API_KEY, clientKey, load, now, ticks, browser, standalone>>

ExpressRequest ==
    /\ unit = "express"
    /\ \E req \in Requests :
          Arrived(ExpressIp(req), ExpressHandler(req, rateLimit, now, GEMINI_API_KEY))

RewriteRequest ==
    /\ unit = "rewriteHandler"
    /\ \E req \in Requests :
          /\ req.route = "rewrite"
          /\ Arrived(RewriteIp(req, Fresh),
                     RewriteHandler(req, rateLimit, now, GEMINI_API_KEY, Fresh))

VerifyRequest ==
    /\ unit = "verifyHandler"
    /\ \E req \in Requests :
          /\ req.route = "verify"
          /\ Arrived(VerifyIp(req), VerifyHandler(req, rateLimit, now))

VerifyVariantRequest ==
    /\ unit = "verifyVariant"
    /\ \E req \in Requests :
          /\ req.route = "verify"
          /\ Arrived(VerifyIp(req), VerifyVariantHandler(req, rateLimit))

\* an awaited call settles and its handler runs on to its next await or to
\* its response
Settled(i, c) ==
    /\ IF c.stage = "done"
       THEN last' = Some(c) /\ slots' = [slots EXCEPT ![i] = None]
       ELSE last' = last /\ slots' = [slots EXCEPT ![i] = Some(c)]
    /\ UNCHANGED <<unit, GEMINI_API_KEY, clientKey, load, now, ticks, rateLimit, seen, others,
                   browser, standalone>>

\* what the upstream may answer
Upstream == IF load = "flows" THEN Outcomes ELSE BurstOutcomes

PrimaryReturns ==
    \E i \in Slots, outcome \in Upstream :
        /\ slots[i] # None /\ slots[i][1].stage = "primary" /\ ~slots[i][1].hung
        /\ Settled(i, PrimarySettled(slots[i][1], outcome))

SecondaryReturns ==
    \E i \in Slots, outcome \in Upstream :
        /\ slots[i] # None /\ slots[i][1].stage = "secondary" /\ ~slots[i][1].hung
        /\ Settled(i, SecondarySettled(slots[i][1], outcome))

ProbeReturns ==
    \E i \in Slots, outcome \in Upstream :
        /\ slots[i] # None /\ slots[i][1].stage = "probe" /\ ~slots[i][1].hung
        /\ Settled(i, ProbeSettled(slots[i][1], outcome))

\* the call a request awaits never settles: the handler applies no timeout
\* to generateContent, so its continuation never runs
UpstreamHangs ==
    \E i \in Slots :
        /\ slots[i] # None /\ ~slots[i][1].hung
        /\ slots' = [slots EXCEPT ![i] = Some([slots[i][1] EXCEPT !.hung = TRUE])]
        /\ UNCHANGED <<unit, GEMINI_API_KEY, clientKey, load, now, ticks, rateLimit, last,
                       seen, others, browser, standalone>>

\* by how much the clock may advance at once: to within the window, to its
\* last millisecond and past it where the workload exhausts the limit, past
\* the window elsewhere; under the sliding workload by 2 ms and by 1 ms less
\* than a window, so that a window that opened at 0 has ended at 60,001
Advances ==
    IF load = "burst" THEN {1, WINDOW_MS, WINDOW_MS + 1}
    ELSE IF load = "sliding" THEN {2, WINDOW_MS - 1}
    ELSE {WINDOW_MS + 1}

\* how often the clock may advance
Ticks == IF load = "sliding" THEN MaxTicks + 1 ELSE MaxTicks

\* time passes
Tick ==
    /\ ticks < Ticks
    /\ \E d \in Advances : now' = now + d
    /\ ticks' = ticks + 1
    /\ UNCHANGED <<unit, GEMINI_API_KEY, clientKey, load, rateLimit, slots, last, seen, others,
                 browser, standalone>>

Next ==
    \/ ExpressRequest
    \/ RewriteRequest
    \/ VerifyRequest
    \/ VerifyVariantRequest
    \/ PrimaryReturns
    \/ SecondaryReturns
    \/ ProbeReturns
    \/ Tick

\* the same with upstream calls that may never settle
NextLive ==
    \/ Next
    \/ UpstreamHangs

Spec == Init /\ [][Next]_vars

SpecBurst == InitBurst /\ [][Next]_vars

SpecClients == InitClients /\ [][Next]_vars

SpecSliding == InitSliding /\ [][Next]_vars

\* an upstream call that does not hang settles, and the event loop then runs
\* the continuation of the handler that awaits it
Fairness ==
    /\ WF_vars(PrimaryReturns)
    /\ WF_vars(SecondaryReturns)
    /\ WF_vars(ProbeReturns)

SpecLive == Init /\ [][NextLive]_vars /\ Fairness

----------------------------------------------------------------------------
(* The key dialog of the browser client: src/unnamed/part_001:59-139 and    *)
(* 296-392                                                                  *)

\* what the user may have typed into the API key field: nothing, a key that
\* starts with AIza, a second such key, a key that does not, and the first
\* key between blanks
TypedKeys == {<<>>, <<"k">>, <<"k", "2">>, <<"x">>, <<" ", "k", " ">>}

\* the state of App after its first render and effect, with storedKey in
\* localStorage; test is the testApiKey call that awaits its fetch, with the
\* key its caller saves once it returns true (None for Test Connection);
\* verified and saved are the observer's: the keys for which /api/verify
\* answered ok, and the keys saveApiKey has stored
App(storedKey) ==
    [apiKey |-> IF storedKey = None THEN <<>> ELSE storedKey[1],
     localStorage |-> storedKey,
     showApiKeyModal |-> FALSE,
     tempApiKey |-> <<>>,
     isTestingKey |-> FALSE,
     keyStatus |-> "idle",
     test |-> None,
     verified |-> {},
     saved |-> {}]

\* what the browser's steps leave alone
server ==
    <<unit, GEMINI_API_KEY, clientKey, load, now, ticks, rateLimit, slots, last, seen,
      others, standalone>>

InitBrowser ==
    /\ load = "browser"
    /\ unit = "express"
    /\ GEMINI_API_KEY = None
    /\ clientKey = None
    /\ now = 0
    /\ ticks = 0
    /\ rateLimit = <<>>
    /\ slots = [i \in Slots |-> None]
    /\ last = None
    /\ seen = <<>>
    /\ others = 0
    /\ standalone = None
    /\ browser \in {App(None), App(Some(<<"k">>))}

\* lines 74-84: testApiKey up to its fetch
testApiKey(b, keyToTest, save) ==
    IF ~StartsWithAIza(keyToTest)
    THEN [b EXCEPT !.keyStatus = "invalid"]
    ELSE [b EXCEPT !.isTestingKey = TRUE,
                   !.keyStatus = "idle",
                   !.test = Some([keyToTest |-> keyToTest, save |-> save])]

\* lines 126-130
Store(b, key) ==
    [b EXCEPT !.apiKey = key,
              !.localStorage = Some(key),
              !.showApiKeyModal = FALSE,
              !.tempApiKey = <<>>,
              !.keyStatus = "idle",
              !.saved = @ \cup {key}]

\* lines 243 and 174: the dialog opens
OpenKeyDialog ==
    /\ ~browser.showApiKeyModal
    /\ browser' = [browser EXCEPT !.showApiKeyModal = TRUE]
    /\ UNCHANGED server

\* line 308: the dialog is closed
CloseKeyDialog ==
    /\ browser.showApiKeyModal
    /\ browser' = [browser EXCEPT !.showApiKeyModal = FALSE]
    /\ UNCHANGED server

\* lines 322-328: the user edits the key field, which is enabled while a
\* test is in flight too
onChange ==
    /\ browser.showApiKeyModal
    /\ \E value \in TypedKeys \ {browser.tempApiKey} :
          browser' = [browser EXCEPT !.tempApiKey = value, !.keyStatus = "idle"]
    /\ UNCHANGED server

\* lines 367-380: Test Connection and Save Key are enabled
ButtonsEnabled ==
    /\ browser.showApiKeyModal
    /\ Trim(browser.tempApiKey) # <<>>
    /\ ~browser.isTestingKey

\* lines 367-373: Test Connection
TestConnection ==
    /\ ButtonsEnabled
    /\ browser' = testApiKey(browser, Trim(browser.tempApiKey), None)
    /\ UNCHANGED server

\* lines 116-132: Save Key, up to the await of line 120 when the status is
\* idle
saveApiKey ==
    /\ ButtonsEnabled
    /\ browser' =
          IF browser.keyStatus = "idle"
          THEN testApiKey(browser, Trim(browser.tempApiKey), Some(Trim(browser.tempApiKey)))
          ELSE IF browser.keyStatus = "invalid" THEN browser
          ELSE Store(browser, Trim(browser.tempApiKey))
    /\ UNCHANGED server

\* lines 87-113 and 121-130: the fetch of /api/verify settles (response.ok,
\* another status, or a rejection: no connection, or the abort after 8 s);
\* testApiKey returns, and the saveApiKey that awaits it goes on with the
\* key and the status it was rendered with
fetchSettles ==
    /\ browser.test # None
    /\ \E result \in {"ok", "notOk", "rejected"} :
          LET t == browser.test[1]
              b == [browser EXCEPT
                       !.keyStatus = IF result = "ok" THEN "valid" ELSE "invalid",
                       !.isTestingKey = FALSE,
                       !.test = None,
                       !.verified = IF result = "ok" THEN @ \cup {t.keyToTest} ELSE @]
          IN  browser' = IF result = "ok" /\ t.save # None THEN Store(b, t.save[1]) ELSE b
    /\ UNCHANGED server

\* lines 134-139: Remove Key, shown while a key is stored
removeApiKey ==
    /\ browser.showApiKeyModal
    /\ browser.apiKey # <<>>
    /\ browser' = [browser EXCEPT !.apiKey = <<>>,
                                  !.localStorage = None,
                                  !.showApiKeyModal = FALSE,
                                  !.keyStatus = "idle"]
    /\ UNCHANGED server

NextBrowser ==
    \/ OpenKeyDialog
    \/ CloseKeyDialog
    \/ onChange
    \/ TestConnection
    \/ saveApiKey
    \/ fetchSettles
    \/ removeApiKey

SpecBrowser == InitBrowser /\ [][NextBrowser]_vars

----------------------------------------------------------------------------
(* The deployment variants side by side: the Express server                 *)
(* (src/unnamed/part_000:63-199), the standalone handlers of                *)
(* src/api/rewrite.ts, each with the Map of its own module, and the verify  *)
(* handler of src/unnamed/part_000:3-25, given the same requests at the     *)
(* same times with the same upstream outcomes                               *)

\* the request runs on to its response: its first upstream call settles as
\* first, and its second, if it makes one, as second
Complete(c, first, second) ==
    IF c.stage = "primary"
    THEN LET d == PrimarySettled(c, first)
         IN  IF d.stage = "secondary" THEN SecondarySettled(d, second) ELSE d
    ELSE IF c.stage = "probe" THEN ProbeSettled(c, first)
    ELSE c

InitPair ==
    /\ load = "pair"
    /\ unit = "express"
    /\ GEMINI_API_KEY = None
    /\ clientKey \in {None, Some(<<"k">>)}
    /\ now = 0
    /\ ticks = 0
    /\ rateLimit = <<>>
    /\ slots = [i \in Slots |-> None]
    /\ last = None
    /\ seen = <<>>
    /\ others = 0
    /\ browser = None
    /\ standalone = [rewrite |-> <<>>, verify |-> <<>>, last |-> None, variant |-> None]

\* one request is given to the Express server, to the standalone handler of
\* its operation and, if it is a verify request, to the verify handler
\* without limiter
PairRequest ==
    /\ others < MAX_REQUESTS + MaxOver
    /\ \E req \in Requests, first \in BurstOutcomes, second \in BurstOutcomes :
          LET e == ExpressHandler(req, rateLimit, now, GEMINI_API_KEY)
              r == RewriteHandler(req, standalone.rewrite, now, GEMINI_API_KEY, 1)
              v == VerifyHandler(req, standalone.verify, now)
              w == VerifyVariantHandler(req, <<>>)
          IN  /\ rateLimit' = e.map
              /\ last' = Some(Complete(e.ctx, first, second))
              /\ standalone' =
                    IF req.route = "rewrite"
                    THEN [standalone EXCEPT
                             !.rewrite = r.map,
                             !.last = Some(Complete(r.ctx, first, second)),
                             !.variant = None]
                    ELSE [standalone EXCEPT
                             !.verify = v.map,
                             !.last = Some(Complete(v.ctx, first, second)),
                             !.variant = Some(Complete(w.ctx, first, second))]
    /\ others' = others + 1
    /\ UNCHANGED <<unit, GEMINI_API_KEY, clientKey, load, now, ticks, slots, seen, browser>>

NextPair ==
    \/ PairRequest
    \/ Tick

SpecPair == InitPair /\ [][NextPair]_vars

----------------------------------------------------------------------------
(* Claims *)

\* the requests the state holds: those in flight and the one that ended last
Ctxs == {slots[i][1] : i \in {j \in Slots : slots[j] # None}} \cup {last[i] : i \in DOMAIN last}

HasLimiter == unit # "verifyVariant"

TooManyResponse == [status |-> 429, body |-> Body(None, Some(TooManyRequests), None)]

\* C1: in a unit with a limiter, for every client identifier, of the requests
\* that arrive within one window the first 20 are admitted and the 21st and
\* every later one is rejected, and a rejected request is answered 429 with
\* the error "Too many requests. Please try again later."
C1_FirstTwentyAdmitted ==
    HasLimiter =>
        /\ \A k \in DOMAIN seen :
              seen[k].admitted = (IF seen[k].arrived <= 20 THEN seen[k].arrived ELSE 20)
        /\ \A c \in Ctxs : Limited(c) => c.sent = <<TooManyResponse>>

\* C1 witness: a client's 22nd request of one window has just been rejected
C1_Witness ==
    /\ HasLimiter
    /\ \E k \in DOMAIN seen : seen[k].arrived = 22 /\ seen[k].admitted = 20
    /\ last # None /\ Limited(last[1]) /\ last[1].sent = <<TooManyResponse>>

\* C2: when a request arrives from a client whose record holds count 20, it
\* is admitted if it arrives more than 60,000 ms after the record's window
\* start, and the record then has count 1 and that request's time as its
\* window start; otherwise (also at exactly 60,000 ms) it is rejected with 429
\* and the map is unchanged
C2_ReadmittedAfterWindow ==
    [][\A k \in DOMAIN rateLimit :
          (rateLimit[k].count = 20 /\ k \in DOMAIN seen /\ seen'[k] # seen[k]) =>
              IF now - rateLimit[k].lastReset > 60000
              THEN /\ rateLimit'[k] = [count |-> 1, lastReset |-> now]
                   /\ seen'[k].arrived = 1 /\ seen'[k].admitted = 1
                   /\ last' = last \/ ~Limited(last'[1])
              ELSE /\ rateLimit' = rateLimit
                   /\ last' # None /\ Limited(last'[1])
                   /\ last'[1].sent = <<TooManyResponse>>]_vars

\* C2 witness: the first request after an exhausted window has been admitted,
\* more than 60,000 ms after that window started
C2_Witness ==
    \E k \in DOMAIN seen :
        /\ seen[k].exhausted /\ seen[k].arrived = 1 /\ seen[k].admitted = 1
        /\ k \in DOMAIN rateLimit /\ rateLimit[k] = [count |-> 1, lastReset |-> now]
        /\ now > 60000

\* a request has been rejected exactly 60,000 ms after the window start
C2_BoundaryReached ==
    \E k \in DOMAIN rateLimit :
        /\ rateLimit[k].count = 20 /\ now - rateLimit[k].lastReset = 60000
        /\ seen[k].arrived > 20
        /\ last # None /\ Limited(last[1]) /\ last[1].ip = Some(k)

\* C5: under every interleaving of arrivals with requests whose upstream
\* calls are in flight, the count stored for a client is the number of its
\* requests the limiter let pass in the current window (no update is lost),
\* and at most 20 are let pass per window
C5_NoLostUpdate ==
    HasLimiter =>
        \A k \in DOMAIN seen :
            /\ seen[k].admitted <= 20
            /\ k \in DOMAIN rateLimit
            /\ rateLimit[k].lastReset = seen[k].start
            /\ rateLimit[k].count = seen[k].admitted

\* C5 witness: a client is rejected as its 21st request of the window arrives
\* while an earlier request of the same client awaits its upstream call
C5_Witness ==
    /\ HasLimiter
    /\ \E k \in DOMAIN seen :
          /\ seen[k].admitted = 20 /\ seen[k].arrived > 20
          /\ \E i \in Slots : slots[i] # None /\ slots[i][1].ip = Some(k)
          /\ last # None /\ Limited(last[1]) /\ last[1].ip = Some(k)

\* position of the first occurrence of a step, 0 if it was not taken
StepAt(c, name) ==
    IF \E i \in 1..Len(c.steps) : c.steps[i] = name
    THEN CHOOSE i \in 1..Len(c.steps) :
            c.steps[i] = name /\ \A j \in 1..(i - 1) : c.steps[j] # name
    ELSE 0

C7_TwentyFirstVerifyRejected ==
    unit \in {"express", "verifyHandler", "verifyVariant"} =>
        \A k \in DOMAIN seen :
            seen[k].arrived >= 21 =>
                /\ seen[k].admitted = 20
                /\ \A c \in Ctxs : Limited(c) => c.sent = <<TooManyResponse>>

\* the same at the two verify entry points that have a limiter
C7_LimitedEntryPoints ==
    unit \in {"express", "verifyHandler"} =>
        \A k \in DOMAIN seen :
            seen[k].arrived >= 21 =>
                /\ seen[k].admitted = 20
                /\ \A c \in Ctxs : Limited(c) => c.sent = <<TooManyResponse>>

\* the requests the rewrite flow has taken up: admitted POST requests to the
\* rewrite operation
RewriteCtxs ==
    {c \in Ctxs : c.route = "rewrite" /\ c.method = "POST" /\ ~Limited(c)
                  /\ unit \in {"express", "rewriteHandler"}}

PrimaryModel == "gemini-3.1-pro-preview"
SecondaryModel == "gemini-3-flash-preview"

\* an error that carries a quota marker: status 429, error.code 429,
\* error.status RESOURCE_EXHAUSTED, or the text 429 or RESOURCE_EXHAUSTED in
\* its message, or RESOURCE_EXHAUSTED in its serialization
QuotaExhausted(e) ==
    \/ e.status = 429
    \/ e.code = 429
    \/ e.estatus = "RESOURCE_EXHAUSTED"
    \/ \E i \in 1..Len(e.details) : e.details[i] = "RESOURCE_EXHAUSTED"
    \/ e.message # None /\ \E i \in 1..Len(e.message[1]) :
                                e.message[1][i] \in {"429", "RESOURCE_EXHAUSTED"}

\* the response that reports error e
ErrorResponse(e) ==
    [status |-> IF e.status = 0 THEN 500 ELSE e.status,
     body |-> Body(None, IF e.message = None THEN Some(InternalServerError) ELSE e.message, None)]

\* C3: in the rewrite flow the first call goes to the primary model; the
\* secondary model is called exactly when the primary call failed with a
\* quota error, then exactly once and after the primary call; its outcome is
\* the response (a success yields 200 with the secondary text); after a
\* non-quota failure of the primary call the secondary model is not called
C3_FallbackOnQuotaOnly ==
    \A c \in RewriteCtxs :
        /\ Len(c.calls) <= 2
        /\ c.calls # <<>> => c.calls[1].model = PrimaryModel
        /\ Len(c.calls) = 2 <=>
              (c.settled # <<>> /\ ~c.settled[1].ok /\ QuotaExhausted(c.settled[1].err))
        /\ Len(c.calls) = 2 => c.calls[2].model = SecondaryModel
        /\ (Len(c.settled) = 2 /\ c.settled[2].ok) =>
              c.sent = <<[status |-> 200, body |-> Body(c.settled[2].text, None, None)]>>
        /\ (Len(c.settled) = 2 /\ ~c.settled[2].ok) =>
              c.sent = <<ErrorResponse(c.settled[2].err)>>
        /\ (c.settled # <<>> /\ ~c.settled[1].ok /\ ~QuotaExhausted(c.settled[1].err)) =>
              /\ Len(c.calls) = 1 /\ c.stage = "done"
              /\ c.sent = <<ErrorResponse(c.settled[1].err)>>

\* C3 witness: the primary call failed with a quota error that carries status
\* 403 and the secondary call succeeded with a text the response returns
C3_Witness ==
    \E c \in RewriteCtxs :
        /\ Len(c.calls) = 2 /\ Len(c.settled) = 2
        /\ c.settled[1] = Failure(ErrQuotaCode)
        /\ c.settled[2] = Success(Some("T2"))
        /\ c.sent = <<[status |-> 200, body |-> Body(Some("T2"), None, None)]>>

\* C4: the secondary attempt is final: after the secondary call has settled
\* the request is answered and no third call is made, and when it failed the
\* response carries the secondary error's status (500 if it has none) and
\* message, not the primary error's
C4_SecondaryIsFinal ==
    \A c \in RewriteCtxs :
        /\ Len(c.calls) <= 2
        /\ Len(c.settled) = 2 => c.stage = "done" /\ Len(c.calls) = 2 /\ Len(c.sent) = 1
        /\ (Len(c.settled) = 2 /\ ~c.settled[2].ok) =>
              /\ c.sent[1].status =
                    (IF c.settled[2].err.status = 0 THEN 500 ELSE c.settled[2].err.status)
              /\ c.sent[1].body.error =
                    (IF c.settled[2].err.message = None THEN Some(InternalServerError)
                     ELSE c.settled[2].err.message)
              /\ c.sent[1].body.text = None

\* C4 witness: the secondary call failed with a quota error again, which
\* differs from the primary's in status and message, and was reported
C4_Witness ==
    \E c \in RewriteCtxs :
        /\ Len(c.settled) = 2
        /\ c.settled[1] = Failure(ErrQuotaCode)
        /\ c.settled[2] = Failure(ErrQuotaDetails)
        /\ c.sent = <<[status |-> 500, body |-> Body(None, Some(InternalServerError), None)]>>

\* C8: an admitted rewrite request without apiKey (absent or empty), while no
\* server default is configured, is answered 401 with the error "API Key is
\* missing. ..." and makes no upstream call
C8_MissingCredential ==
    \A c \in RewriteCtxs :
        (c.apiKey \in {None, Some(<<>>)} /\ GEMINI_API_KEY \in {None, Some(<<>>)}) =>
            /\ c.sent = <<[status |-> 401, body |-> Body(None, Some(KeyMissing), None)]>>
            /\ c.calls = <<>>
            /\ c.stage = "done"

\* C8 witness: a rewrite request with an empty apiKey has been answered 401
C8_Witness ==
    \E c \in RewriteCtxs :
        /\ c.apiKey = Some(<<>>) /\ GEMINI_API_KEY = None
        /\ c.sent # <<>> /\ c.sent[1].status = 401

\* C9: in the rewrite flow a request with a non-empty apiKey makes every
\* upstream call, primary and secondary, with its own key, whether or not a
\* server default is configured; the server default is used only when the
\* request's key is absent or empty
C9_RequestKeyFirst ==
    \A c \in RewriteCtxs :
        \A i \in 1..Len(c.calls) :
            IF c.apiKey \notin {None, Some(<<>>)}
            THEN c.calls[i].apiKey = c.apiKey[1]
            ELSE Some(c.calls[i].apiKey) = GEMINI_API_KEY

\* C9 witness: with a server default configured, a request with its own key
\* has made the primary and the secondary call with its own key
C9_Witness ==
    \E c \in RewriteCtxs :
        /\ c.apiKey = Some(<<"k">>) /\ GEMINI_API_KEY = Some(<<"s">>)
        /\ Len(c.calls) = 2
        /\ c.calls[1].apiKey = <<"k">> /\ c.calls[2].apiKey = <<"k">>

\* C10: the key handed to the upstream client is the request's key trimmed of
\* surrounding whitespace, and a request key that is empty after trimming
\* falls through to the server default, or to the 401 answer when none is
\* configured
C10_TrimmedRequestKey ==
    \A c \in RewriteCtxs :
        LET trimmed == IF c.apiKey = None THEN <<>> ELSE Trim(c.apiKey[1])
        IN  /\ \A i \in 1..Len(c.calls) :
                  IF trimmed # <<>> THEN c.calls[i].apiKey = trimmed
                  ELSE Some(c.calls[i].apiKey) = GEMINI_API_KEY
            /\ (trimmed = <<>> /\ GEMINI_API_KEY \in {None, Some(<<>>)}) =>
                  c.calls = <<>> /\ c.sent # <<>> /\ c.sent[1].status = 401

\* the requests the verify flow has taken up: POST requests to the verify
\* operation that the limiter, where there is one, let pass
VerifyCtxs == {c \in Ctxs : c.route = "verify" /\ c.method = "POST" /\ ~Limited(c)}

\* C11: an admitted verify request without apiKey (absent or empty) is
\* answered 400 with the error "API Key is required" and makes no upstream
\* call, whether or not a server default is configured
C11_VerifyNeedsRequestKey ==
    \A c \in VerifyCtxs :
        c.apiKey \in {None, Some(<<>>)} =>
            /\ c.sent = <<[status |-> 400, body |-> Body(None, Some(KeyRequired), None)]>>
            /\ c.calls = <<>>
            /\ c.stage = "done"

\* C11 witness: with a server default configured, a verify request without
\* apiKey has been answered 400
C11_Witness ==
    \E c \in VerifyCtxs :
        /\ c.apiKey = None /\ GEMINI_API_KEY = Some(<<"s">>)
        /\ c.sent # <<>> /\ c.sent[1].status = 400 /\ c.calls = <<>>

\* C12: an admitted verify request with a key makes exactly one upstream
\* call, to the secondary model with the prompt "Hi", the request's key and
\* no system instruction or sampling configuration; when the call succeeds
\* the response is 200 {status: "valid"}, when it fails with any error the
\* response is 400 with status "invalid", and no second call is made
C12_VerifyProbesOnce ==
    \A c \in VerifyCtxs :
        c.apiKey \notin {None, Some(<<>>)} =>
            /\ c.calls = <<[model |-> SecondaryModel, apiKey |-> c.apiKey[1],
                            text |-> Some("Hi"), systemInstruction |-> None,
                            sampling |-> None]>>
            /\ Len(c.settled) <= 1
            /\ c.settled = <<>> => c.sent = <<>> /\ c.stage = "probe"
            /\ (c.settled # <<>> /\ c.settled[1].ok) =>
                  c.sent = <<[status |-> 200, body |-> Body(None, None, Some("valid"))]>>
            /\ (c.settled # <<>> /\ ~c.settled[1].ok) =>
                  /\ Len(c.sent) = 1
                  /\ c.sent[1].status = 400
                  /\ c.sent[1].body.status = Some("invalid")
                  /\ c.sent[1].body.text = None

\* C12 witness: the probe failed with a quota error and the request was
\* answered 400 "invalid" after that one call
C12_Witness ==
    \E c \in VerifyCtxs :
        /\ c.settled = <<Failure(ErrQuotaStatus)>>
        /\ Len(c.calls) = 1
        /\ c.sent # <<>> /\ c.sent[1].status = 400
        /\ c.sent[1].body.status = Some("invalid")

\* C13: when the primary call fails with an error that is not a quota error,
\* the request ends there: one call, one response, whose status is the
\* error's status (500 when it carries none) and whose error field is the
\* error's message ("Internal Server Error" when it has none)
C13_NonQuotaPropagated ==
    \A c \in RewriteCtxs :
        (c.settled # <<>> /\ ~c.settled[1].ok /\ ~QuotaExhausted(c.settled[1].err)) =>
            LET e == c.settled[1].err
            IN  /\ Len(c.settled) = 1 /\ Len(c.calls) = 1 /\ c.stage = "done"
                /\ Len(c.sent) = 1
                /\ c.sent[1].status = (IF e.status = 0 THEN 500 ELSE e.status)
                /\ c.sent[1].body =
                      Body(None, IF e.message = None THEN Some(InternalServerError)
                                 ELSE e.message, None)

\* C13 witness: an authorization failure of the primary call was answered
\* with its status 403 and its message
C13_Witness ==
    \E c \in RewriteCtxs :
        /\ c.settled = <<Failure(ErrAuth)>>
        /\ c.sent = <<[status |-> 403,
                       body |-> Body(None, Some(<<"API", "Key", "denied">>), None)]>>

\* the quota markers an error carries: status 429, error.code 429,
\* error.status RESOURCE_EXHAUSTED, the text 429 or RESOURCE_EXHAUSTED in the
\* message, RESOURCE_EXHAUSTED elsewhere in the serialized error
QuotaMarkers(e) ==
    (IF e.status = 429 THEN {"status"} ELSE {})
    \cup (IF e.code = 429 THEN {"error.code"} ELSE {})
    \cup (IF e.estatus = "RESOURCE_EXHAUSTED" THEN {"error.status"} ELSE {})
    \cup (IF e.message # None /\ \E i \in 1..Len(e.message[1]) : e.message[1][i] = "429"
          THEN {"message 429"} ELSE {})
    \cup (IF e.message # None
             /\ \E i \in 1..Len(e.message[1]) : e.message[1][i] = "RESOURCE_EXHAUSTED"
          THEN {"message text"} ELSE {})
    \cup (IF \E i \in 1..Len(e.details) : e.details[i] = "RESOURCE_EXHAUSTED"
          THEN {"serialized"} ELSE {})

OperationCtxs == {c \in Ctxs : c.stage # "next"}

\* the body carries the operation's successful payload
HasPayload(c, body) ==
    IF c.route = "rewrite" THEN body.text # None ELSE body.status = Some("valid")

\* a request is answered once when its handling ends and not before
C15_ExactlyOneResponse ==
    \A c \in OperationCtxs :
        IF c.stage = "done" THEN Len(c.sent) = 1 ELSE c.sent = <<>>

\* C15: every request to the rewrite or verify operation is answered exactly
\* once, and the body of the response carries the successful payload (text
\* for rewrite, status "valid" for verify) or an error field
C15_PayloadOrError ==
    /\ C15_ExactlyOneResponse
    /\ \A c \in OperationCtxs :
          \A i \in 1..Len(c.sent) :
              HasPayload(c, c.sent[i].body) \/ c.sent[i].body.error # None

\* a rewrite request was answered 200 with a body that has neither text nor
\* error: the primary call resolved without text
C15_EmptyRewriteBody ==
    \E c \in RewriteCtxs :
        /\ c.settled = <<Success(None)>>
        /\ c.sent = <<[status |-> 200, body |-> Body(None, None, None)]>>

\* C16: when the primary call succeeds the request is answered 200 with the
\* primary's text as the text field, and the request ends with that one
\* call: the secondary model is not called
C16_PrimarySuccessReturned ==
    \A c \in RewriteCtxs :
        (c.settled # <<>> /\ c.settled[1].ok) =>
            /\ c.sent = <<[status |-> 200, body |-> Body(c.settled[1].text, None, None)]>>
            /\ c.calls = <<PrimaryCall(c.keyToUse[1], c.text)>>
            /\ Len(c.settled) = 1
            /\ c.stage = "done"

\* C16 witness: the primary call returned the text T1, which was sent back
C16_Witness ==
    \E c \in RewriteCtxs :
        /\ c.settled = <<Success(Some("T1"))>>
        /\ Len(c.calls) = 1 /\ c.calls[1].model = PrimaryModel
        /\ c.sent = <<[status |-> 200, body |-> Body(Some("T1"), None, None)]>>

\* the client identifier of a request: the first value of the forwarded
\* header when it is present (and not empty), otherwise the peer address,
\* otherwise "unknown"
ClientId(forwarded, remote) ==
    IF forwarded # None /\ forwarded[1].vals # <<>> /\ forwarded[1].vals[1] # ""
    THEN forwarded[1].vals[1]
    ELSE IF remote # None /\ remote[1] # "" THEN remote[1]
    ELSE "unknown"

\* C17: in every unit with a limiter a request is counted under its client
\* identifier (so that requests with equal forwarded headers, a single value
\* or a list, share one bucket)
C17_ClientIdDerivation ==
    HasLimiter =>
        \A c \in Ctxs : c.ip = Some(StrKey(ClientId(c.forwarded, c.remote)))

\* in the Express middleware the same holds for every request whose
\* forwarded header is not a string of several values
C17_ExpressDerivation ==
    unit = "express" =>
        \A c \in Ctxs :
            (c.forwarded = None \/ c.forwarded[1].isArray \/ Len(c.forwarded[1].vals) = 1) =>
                c.ip = Some(StrKey(ClientId(c.forwarded, c.remote)))

\* two requests to the rewrite handler with the same array header have been
\* counted in two buckets
C17_ArrayHeadersApart ==
    /\ unit = "rewriteHandler"
    /\ {ObjKey(1), ObjKey(2)} \subseteq DOMAIN rateLimit
    /\ rateLimit[ObjKey(1)].count = 1 /\ rateLimit[ObjKey(2)].count = 1

\* C18: every request that awaits an upstream call is eventually answered,
\* also when that call never returns
C18_EventuallyAnswered ==
    \A i \in Slots : (slots[i] # None) ~> (slots[i] = None)

\* a request whose upstream calls all settle is eventually answered
C18_AnsweredUnlessHung ==
    \A i \in Slots : (slots[i] # None) ~> (slots[i] = None \/ slots[i][1].hung)

\* C19: no request the browser client issues to the verify or the rewrite
\* operation carries the user's key
C19_KeyNotSentToServer ==
    \A c \in Ctxs : FromBrowser(c) => c.apiKey \in {None, Some(<<>>)}

\* the server has handed the key of a browser request to the upstream client
C19_KeyUsedByServer ==
    \E c \in Ctxs :
        /\ FromBrowser(c) /\ c.route = "rewrite" /\ c.apiKey = Some(<<"k">>)
        /\ c.calls # <<>> /\ c.calls[1].apiKey = <<"k">>

\* the addresses a request can carry
Addresses == {"c1", "c1, c2", "c2", "p1", "unknown", ""}

\* what the server holds between requests: the rateLimit Map and the
\* environment.  The Map holds, per client identifier, a count and a window
\* start and nothing else
OnlyCounters(map) ==
    \A k \in DOMAIN map :
        /\ \/ k[1] = "str" /\ k[2] \in Addresses
           \/ k[1] = "obj" /\ k[2] \in Nat
        /\ DOMAIN map[k] = {"count", "lastReset"}
        /\ map[k].count \in 1..MAX_REQUESTS
        /\ map[k].lastReset \in Nat

\* C20: every step of the server leaves its configuration unchanged and
\* changes of its state only the rateLimit Map, which holds counts and window
\* starts per client identifier; the text and the key of a request are held
\* only while the request is in flight, and are dropped when it is answered
C20_OnlyRateLimitPersists ==
    [][/\ GEMINI_API_KEY' = GEMINI_API_KEY
       /\ unit' = unit
       /\ OnlyCounters(rateLimit')
       /\ \A i \in Slots :
             slots'[i] # None => slots'[i][1].stage \in {"primary", "secondary", "probe"}
       /\ \A i \in Slots :
             (slots[i] # None /\ slots'[i] # slots[i]) =>
                 \/ slots'[i] = None
                 \/ slots'[i] # None /\ slots'[i][1].text = slots[i][1].text
                                     /\ slots'[i][1].apiKey = slots[i][1].apiKey]_vars

\* C20 witness: a rewrite request with a text and a key has been served with
\* two upstream calls and answered, no request is in flight, and the Map holds
\* its one count
C20_Witness ==
    /\ last # None /\ last[1].route = "rewrite"
    /\ last[1].apiKey = Some(<<"k">>) /\ last[1].text = Some("in1")
    /\ Len(last[1].calls) = 2 /\ last[1].stage = "done"
    /\ FreeSlots = Slots
    /\ DOMAIN rateLimit = {HeavyClient}
    /\ rateLimit[HeavyClient] = [count |-> 1, lastReset |-> 0]

\* C29: the secondary call of a rewrite request carries the credential, the
\* input text and the system instruction of its primary call; the two differ
\* in the model and in the sampling configuration (temperature, topP, topK:
\* 1.1/0.98/100 for the primary, 1.0/0.95/64 for the secondary) and in
\* nothing else
C29_SecondaryDiffersInModelAndSampling ==
    \A c \in RewriteCtxs :
        /\ c.calls # <<>> =>
              /\ c.calls[1].model = PrimaryModel
              /\ c.calls[1].sampling = Some(<<11, 98, 100>>)
              /\ c.calls[1].text = c.text
              /\ c.calls[1].systemInstruction = Some(SYSTEM_INSTRUCTION)
        /\ Len(c.calls) >= 2 =>
              /\ c.calls[2].model = SecondaryModel
              /\ c.calls[2].sampling = Some(<<10, 95, 64>>)
              /\ c.calls[2] = [c.calls[1] EXCEPT !.model = SecondaryModel,
                                                  !.sampling = Some(<<10, 95, 64>>)]

\* C29 witness: a request with the padded key has made both calls with it
C29_Witness ==
    \E c \in RewriteCtxs :
        /\ Len(c.calls) = 2
        /\ c.calls[1].apiKey = <<" ", "k", " ">> /\ c.calls[2].apiKey = <<" ", "k", " ">>
        /\ c.calls[2].text = Some("in1")

\* an arrival from client k is observed in this step
ArrivalAt(k) ==
    /\ k \in DOMAIN seen'
    /\ k \notin DOMAIN seen \/ seen'[k] # seen[k]

\* the arrival from client k in this step was not answered 429
Passed(k) ==
    seen'[k].admitted =
        1 + (IF k \in DOMAIN seen /\ seen'[k].start = seen[k].start
             THEN seen[k].admitted ELSE 0)

\* C25: a request rejected by the limiter leaves the whole rate-limit map as
\* it was (count and window start of the client included), and a request
\* admitted while the client's window is live stores the client's count
\* raised by exactly 1 with the window start it had, and changes no other
\* client's record
C25_RejectedKeepsAdmittedAddsOne ==
    [][HasLimiter =>
          \A k \in DOMAIN seen' :
              ArrivalAt(k) =>
                  /\ ~Passed(k) => rateLimit' = rateLimit
                  /\ (Passed(k) /\ k \in DOMAIN rateLimit /\ ~Expired(now, rateLimit[k])) =>
                        rateLimit' =
                            [rateLimit EXCEPT ![k] =
                                [count |-> rateLimit[k].count + 1,
                                 lastReset |-> rateLimit[k].lastReset]]]_vars

\* C25 witness: requests were rejected in the last millisecond of a window
\* that 20 admitted requests had filled one by one, and the window still
\* starts where it started
C25_Witness ==
    /\ HasLimiter
    /\ \E k \in DOMAIN rateLimit :
          /\ rateLimit[k] = [count |-> 20, lastReset |-> 0]
          /\ now = 60000
          /\ seen[k].arrived = 22 /\ seen[k].admitted = 20
          /\ last # None /\ Limited(last[1]) /\ last[1].ip = Some(k)

\* C26: every record stored in the rate-limit map has a count from 1 to 20
\* and a window start that is not later than the current time
C26_StoredRecordsInRange ==
    \A k \in DOMAIN rateLimit :
        /\ rateLimit[k].count >= 1
        /\ rateLimit[k].count <= 20
        /\ rateLimit[k].lastReset <= now

\* C26 witness: a record holds count 20 in a window that started in the
\* past, after requests beyond the 20th have arrived
C26_Witness ==
    \E k \in DOMAIN rateLimit :
        /\ rateLimit[k].count = 20 /\ rateLimit[k].lastReset < now
        /\ seen[k].arrived > 20

\* the status of the response of a request that has been answered once
StatusOf(c) == IF Len(c.sent) = 1 THEN c.sent[1].status ELSE 0

\* C27: every request that is not answered 429 takes one unit of its
\* client's budget whatever becomes of it: its arrival stores the count of
\* the live window raised by 1 (1 in a new window), whether the request then
\* ends in 405, 400, 401 or goes on to an upstream call; no settlement of an
\* upstream call, failure or success, changes the map; and so the stored
\* count always equals the number of the client's requests since the window
\* start that were not answered 429
C27_EveryPassedRequestCounts ==
    [][HasLimiter =>
          /\ \A k \in DOMAIN seen' :
                /\ k \in DOMAIN rateLimit'
                /\ rateLimit'[k].count = seen'[k].admitted
                /\ (ArrivalAt(k) /\ Passed(k)) =>
                      rateLimit'[k].count =
                          1 + (IF k \in DOMAIN rateLimit /\ ~Expired(now, rateLimit[k])
                               THEN rateLimit[k].count ELSE 0)
          /\ (seen' = seen /\ slots' # slots) => rateLimit' = rateLimit]_vars

\* C27 witness: the second request of a window has ended in an upstream
\* failure, and the count is 2
C27_Witness ==
    /\ HasLimiter
    /\ last # None /\ last[1].calls # <<>> /\ ~last[1].settled[Len(last[1].settled)].ok
    /\ StatusOf(last[1]) >= 400
    /\ last[1].ip # None /\ last[1].ip[1] \in DOMAIN rateLimit
    /\ rateLimit[last[1].ip[1]].count = 2 /\ seen[last[1].ip[1]].arrived = 2

\* a request answered 405, one answered 401 and one answered 400 have each
\* been counted as the second request of a window
C27_RefusedAreCounted ==
    /\ HasLimiter
    /\ last # None /\ StatusOf(last[1]) \in {400, 401, 405} /\ last[1].calls = <<>>
    /\ last[1].ip # None /\ last[1].ip[1] \in DOMAIN rateLimit
    /\ rateLimit[last[1].ip[1]].count = 2 /\ seen[last[1].ip[1]].arrived = 2

\* C28: in the Express server one record per client identifier serves both
\* routes: once 20 requests of a client have been admitted in a window, in
\* whatever mix of verify and rewrite, every request the client may send to
\* either route within the window is rejected, and the one that arrives is
\* answered 429
C28_SharedBudget ==
    [][unit = "express" =>
          \A k \in DOMAIN seen :
              (seen[k].admitted = 20 /\ now - seen[k].start <= 60000) =>
                  /\ \A req \in Requests :
                        ExpressIp(req) = k =>
                            Limited(ExpressHandler(req, rateLimit, now, GEMINI_API_KEY).ctx)
                  /\ ArrivalAt(k) =>
                        /\ slots' = slots
                        /\ last' # None /\ last'[1].ip = Some(k)
                        /\ last'[1].sent = <<TooManyResponse>>]_vars

\* C28 witness: with a verify request of the window still awaiting its
\* probe, the client's 20 admitted requests are used up and its rewrite
\* request has been answered 429
C28_Witness ==
    /\ unit = "express" /\ now = 0
    /\ \E k \in DOMAIN seen :
          /\ seen[k].admitted = 20 /\ seen[k].arrived > 20
          /\ \E i \in Slots :
                slots[i] # None /\ slots[i][1].route = "verify" /\ slots[i][1].ip = Some(k)
          /\ last # None /\ last[1].route = "rewrite" /\ last[1].ip = Some(k)
          /\ last[1].sent = <<TooManyResponse>>

\* the same with the routes exchanged: a rewrite request of the window is in
\* flight and a verify request has been answered 429
C28_VerifyRejectedAfterRewrites ==
    /\ unit = "express" /\ now = 0
    /\ \E k \in DOMAIN seen :
          /\ seen[k].admitted = 20 /\ seen[k].arrived > 20
          /\ \E i \in Slots :
                slots[i] # None /\ slots[i][1].route = "rewrite" /\ slots[i][1].ip = Some(k)
          /\ last # None /\ last[1].route = "verify" /\ last[1].ip = Some(k)
          /\ last[1].sent = <<TooManyResponse>>

NotAllowedResponse == [status |-> 405, body |-> Body(None, Some(MethodNotAllowed), None)]

\* the requests to the standalone handlers whose method is not POST
NonPostCtxs == {c \in Ctxs : unit # "express" /\ c.method # "POST"}

\* C23 as stated: every non-POST request to a standalone handler is answered
\* 405 {error: "Method Not Allowed"}, with no credential resolved and no
\* upstream call made
C23_NonPostAnswered405 ==
    \A c \in NonPostCtxs :
        /\ c.sent = <<NotAllowedResponse>>
        /\ StepAt(c, "credential") = 0 /\ c.keyToUse = None /\ c.calls = <<>>

\* C23, amended: a non-POST request to a standalone handler never has a
\* credential resolved or an upstream call made, and unless the limiter
\* rejects it (429) it is answered 405 {error: "Method Not Allowed"} at once
C23_NonPostFailsFast ==
    \A c \in NonPostCtxs :
        /\ StepAt(c, "credential") = 0 /\ c.keyToUse = None /\ c.calls = <<>>
        /\ c.stage = "done"
        /\ c.sent = <<IF Limited(c) THEN TooManyResponse ELSE NotAllowedResponse>>
        /\ Limited(c) => HasLimiter /\ StepAt(c, "method") = 0

\* C23 witness: a GET request to the standalone rewrite handler, where both
\* a request key and a default key are there to be used, has been answered
\* 405
C23_Witness ==
    /\ unit = "rewriteHandler" /\ clientKey # None /\ GEMINI_API_KEY # None
    /\ last # None /\ last[1].method = "GET"
    /\ last[1].sent = <<NotAllowedResponse>> /\ last[1].calls = <<>>

\* a verify request that has been answered
Verified(o) ==
    /\ o # None
    /\ o[1].route = "verify" /\ o[1].method = "POST" /\ ~Limited(o[1])
    /\ o[1].stage = "done"

\* what a verify request is answered, from its credential and from how the
\* upstream answered that credential, and from nothing else
VerifyAnswer(apiKey, settled) ==
    IF apiKey \in {None, Some(<<>>)}
    THEN [status |-> 400, body |-> Body(None, Some(KeyRequired), None)]
    ELSE IF settled[1].ok
         THEN [status |-> 200, body |-> Body(None, None, Some("valid"))]
         ELSE [status |-> 400, body |-> Body(None, settled[1].err.message, Some("invalid"))]

\* C22: verification is idempotent: a verify request that is not
\* rate-limited is answered by its credential and the upstream's outcome for
\* it alone, so that it gets the status code and the valid/invalid result
\* of the verify request answered before it whenever the two carry the same
\* credential and the upstream gave the same outcome, however many verify or
\* rewrite requests were handled before
C22_VerifyIdempotent ==
    [][(last' # last /\ Verified(last')) =>
          /\ last'[1].sent = <<VerifyAnswer(last'[1].apiKey, last'[1].settled)>>
          /\ (Verified(last) /\ last[1].apiKey = last'[1].apiKey
                  /\ last[1].settled = last'[1].settled) =>
                /\ last'[1].sent[1].status = last[1].sent[1].status
                /\ last'[1].sent[1].body.status = last[1].sent[1].body.status]_vars

\* C22 witness: the fourth verify request with the same key, the second of
\* the second window, has been reported valid
C22_Witness ==
    /\ unit = "verifyHandler" /\ ticks = 1
    /\ \E k \in DOMAIN seen : seen[k].arrived = 2 /\ seen[k].admitted = 2
    /\ Verified(last) /\ last[1].apiKey = Some(<<"k">>)
    /\ last[1].sent = <<[status |-> 200, body |-> Body(None, None, Some("valid"))]>>

RECURSIVE Total(_, _)
\* the sum of the function f over the finite set S
Total(f, S) ==
    IF S = {} THEN 0
    ELSE LET u == CHOOSE v \in S : TRUE IN f[u] + Total(f, S \ {u})

\* the number of requests of client k the limiter let pass in the 60,000 ms
\* that begin at time t0
AdmittedInSpan(k, t0) ==
    Total(seen[k].times, {u \in DOMAIN seen[k].times : t0 <= u /\ u < t0 + 60000})

\* C24: of the requests of one client identifier, the limiter lets pass at
\* most 20 in any span of 60,000 ms, wherever the span begins
C24_TwentyPerMinute ==
    HasLimiter =>
        \A k \in DOMAIN seen :
            \A t0 \in DOMAIN seen[k].times : AdmittedInSpan(k, t0) <= 20

\* within the windows of its records the limiter does keep to 20: the record
\* of a client never counts more than 20 requests since its window start
C24_TwentyPerWindow ==
    HasLimiter =>
        \A k \in DOMAIN seen :
            /\ seen[k].admitted <= 20
            /\ k \in DOMAIN rateLimit /\ rateLimit[k].count = seen[k].admitted

\* 39 requests of one client have been let pass between 2 ms and 60,001 ms:
\* 19 in the window that began at 0 and 20 in the window that began at 60,001
C24_ThirtyNineInSpan ==
    /\ HasLimiter
    /\ \E k \in DOMAIN seen :
          /\ seen[k].times = (2 :> 19) @@ (60001 :> 20)
          /\ rateLimit[k] = [count |-> 20, lastReset |-> 60001]

\* C30: every key saveApiKey has stored is a key for which a verification
\* had succeeded, under every interleaving of edits of the key field, Test
\* Connection, Save Key and the answers of /api/verify
C30_SavedOnlyIfVerified ==
    load = "browser" => browser.saved \subseteq browser.verified

\* a key that does not even start with AIza has been stored, after the
\* verification of another key succeeded
C30_UntestedKeySaved ==
    /\ load = "browser"
    /\ browser.verified = {<<"k">>}
    /\ browser.saved = {<<"x">>}
    /\ browser.apiKey = <<"x">> /\ browser.localStorage = Some(<<"x">>)

\* the key Save Key verifies by itself is the key it stores, also when the
\* field is edited while the verification is in flight
C30_AutoTestedKeySaved ==
    [][(load = "browser" /\ browser.test # None /\ browser.test[1].save # None
          /\ browser'.saved # browser.saved) =>
              /\ browser'.saved = browser.saved \cup {browser.test[1].keyToTest}
              /\ browser.test[1].keyToTest \in browser'.verified]_vars

\* C21: the deployment variants are equivalent: given the same requests of
\* one client at the same times with the same upstream outcomes, the Express
\* server, the standalone handlers and the verify handler without limiter
\* answer every request with the same status code and body, 429 included
C21_VariantsAgree ==
    (load = "pair" /\ last # None) =>
        /\ standalone.last[1].sent = last[1].sent
        /\ standalone.variant # None => standalone.variant[1].sent = last[1].sent

\* what the variants do share: a POST request that none of them rate-limits
\* is answered alike by all of them
C21_AgreeOnAdmittedPost ==
    (load = "pair" /\ last # None /\ last[1].method = "POST"
        /\ ~Limited(last[1]) /\ ~Limited(standalone.last[1])) =>
            /\ standalone.last[1].sent = last[1].sent
            /\ standalone.variant # None => standalone.variant[1].sent = last[1].sent

\* a GET request that the standalone handler answered 405 was passed on by
\* the Express server to its static/Vite middleware, unanswered by the API
C21_ExpressPassesNonPost ==
    /\ load = "pair" /\ last # None /\ last[1].method = "GET"
    /\ last[1].stage = "next" /\ last[1].sent = <<>>
    /\ standalone.last[1].sent = <<NotAllowedResponse>>

\* a verify request that the Express server answered 429, after 20 requests
\* to both routes, was answered 200 by both standalone verify handlers
C21_BudgetsDiffer ==
    /\ load = "pair" /\ last # None /\ last[1].route = "verify"
    /\ last[1].sent = <<TooManyResponse>>
    /\ standalone.rewrite # <<>> /\ standalone.verify # <<>>
    /\ StatusOf(standalone.last[1]) = 200
    /\ StatusOf(standalone.variant[1]) = 200

\* the verify handler without limiter answered 200 a request that the
\* Express server and the standalone verify handler answered 429
C21_VariantNeverLimits ==
    /\ load = "pair" /\ last # None /\ last[1].route = "verify"
    /\ last[1].sent = <<TooManyResponse>>
    /\ standalone.last[1].sent = <<TooManyResponse>>
    /\ StatusOf(standalone.variant[1]) = 200

====
